---- MODULE Spec2Model ----
(***************************************************************************)
(* Model of the multi-agent CRM pipeline: supervisor_agent.py sequences    *)
(* recruitment_agent.py, interaction_agent.py (asyncio fan-out of one      *)
(* compose/send/watch task per shortlisted lead), scheduler_agent.py and   *)
(* analytics_agent.py.                                                     *)
(*                                                                         *)
(* Text is a sequence of tokens (words or fixed phrases); Python's None is *)
(* the reserved value None.  A lead is identified by its index in the      *)
(* input file, which also stands for its contact_email.  The clock counts  *)
(* the seconds the event loop spends in asyncio.sleep; the blocking        *)
(* collaborator calls (LLM, SMTP, IMAP) take no model time.                *)
(***************************************************************************)
EXTENDS Integers, Sequences, FiniteSets, TLC

\* ------------------------------------------------------------------ bounds
\* companies in the input file synthetic_clients.json (at most)
MaxCompanies == 3
\* intent scores the ranking model may assign are 0..MaxScore
MaxScore == 1
\* messages of one sender that a search of a pipeline's watcher finds (at most)
MaxMsgs == 1
\* messages of one sender in the mailbox of the watcher run on its own (at most)
MaxMail == 2
\* replies handed to the scheduler when it is run on its own (at most)
MaxReplies == 2
\* times the scheduler is run over the same replies (at most)
MaxRuns == 2

\* ------------------------------------------------------- program constants
timeout_minutes == 3
interval_sec == 10
SnippetLen == 250
ShortlistSize == 2

\* -------------------------------------------------------------------- text
None == <<"NoneType">>

IsStr(v) == v # None

\* Python truthiness of an Optional[str]
Truthy(v) == v # None /\ v # <<>>

Whitespace == {" ", "NL"}

\* str.lower(), token by token
LowerTok(t) ==
  CASE t = "None" -> "none"
    [] t = "Null" -> "null"
    [] t = "Yes" -> "yes"
    [] t = "Nov" -> "nov"
    [] t = "Out of Office" -> "out of office"
    [] t = "Google Drive" -> "google drive"
    [] t = "Tomorrow" -> "tomorrow"
    [] OTHER -> t

lower(s) == [i \in 1..Len(s) |-> LowerTok(s[i])]

\* number of characters of a token
TokLen(t) ==
  CASE t \in Whitespace -> 1
    [] t = "LongText" -> SnippetLen
    [] t \in {"Out of Office", "out of office"} -> 13
    [] OTHER -> 4

RECURSIVE lstrip(_)
lstrip(s) == IF s # <<>> /\ Head(s) \in Whitespace THEN lstrip(Tail(s)) ELSE s

RECURSIVE rstrip(_)
rstrip(s) ==
  IF s # <<>> /\ s[Len(s)] \in Whitespace THEN rstrip(SubSeq(s, 1, Len(s) - 1)) ELSE s

\* str.strip()
strip(s) == rstrip(lstrip(s))

\* `pat in s` for a pattern that is one token
Contains(s, pat) == \E i \in 1..Len(s) : s[i] = pat

\* s[:n], the cut falling on a token boundary
RECURSIVE Prefix(_, _)
Prefix(s, n) ==
  IF s = <<>> \/ TokLen(Head(s)) > n THEN <<>>
  ELSE <<Head(s)>> \o Prefix(Tail(s), n - TokLen(Head(s)))

\* re.sub(r"(On .+?wrote:).*", "", body, flags=re.DOTALL)
CutQuoted(body) ==
  LET starts == {i \in 1..Len(body) :
                   body[i] = "On" /\ \E j \in (i + 1)..Len(body) : body[j] = "wrote:"}
  IN IF starts = {} THEN body
     ELSE SubSeq(body, 1, (CHOOSE i \in starts : \A k \in starts : i <= k) - 1)

\* body.strip().replace("\n", " ")
CleanBody(body) ==
  LET b == strip(CutQuoted(body))
  IN [i \in 1..Len(b) |-> IF b[i] = "NL" THEN " " ELSE b[i]]

ignore_patterns == {"google drive", "requests access", "out of office", "autoreply"}

IsNoise(cleaned) == \E p \in ignore_patterns : Contains(lower(cleaned), p)

\* read_latest_reply without its filter of system messages
SnippetOf_nofilter(body) ==
  LET snippet == strip(Prefix(CleanBody(body), SnippetLen))
  IN IF snippet # <<>> THEN snippet ELSE None

\* What read_latest_reply returns for the newest message `body` of the sender:
\* the snippet, or None for a system message or an empty snippet.
SnippetOf(body) ==
  LET cleaned == CleanBody(body)
      snippet == strip(Prefix(cleaned, SnippetLen))
  IN IF IsNoise(cleaned) THEN None
     ELSE IF snippet # <<>> THEN snippet
     ELSE None

\* ------------------------------------------------------------------- state
VARIABLES
  phase,              \* where supervisor_agent_node stands
  companies,          \* the loaded companies, in file order
  shortlisted,        \* the leads recruitment handed on, in rank order
  clock,              \* seconds the event loop has slept
  runq,               \* tasks ready to run, FIFO; the head is running
  pc,                 \* per lead, the position of its process_lead task
  sleepq,             \* tasks suspended in asyncio.sleep, in the order they suspended
  wake,               \* per lead, the clock value at which its sleep ends
  email_data,         \* per lead, process_lead's local email_data
  total_wait,         \* per lead, wait_for_reply's local total_wait
  polls,              \* per lead, calls of read_latest_reply so far
  onlyNoise,          \* per lead, every poll so far found a system message
  result,             \* per lead, what its task returned
  emails_sent,        \* interaction_agent_node's emails_sent
  responses,          \* the responses the supervisor holds
  sched,              \* scheduler_agent_node: its input, loop index and outputs
  scheduled_meetings, \* the supervisor's scheduled_meetings
  failure,            \* the exception that ended the run, or "none"
  resolved,           \* the last call of extract_meeting_datetime on its own
  poll_log,           \* of wait_for_reply run on its own: what its polls met
  mail_log            \* of the scheduler run over a state with records: the
                      \* follow-up emails it asked for and whether each went out

vars == <<phase, companies, shortlisted, clock, runq, sleepq, pc, wake,
          email_data, total_wait, polls, onlyNoise, result, emails_sent, responses,
          sched, scheduled_meetings, failure, resolved, poll_log, mail_log>>

Leads == 1..MaxCompanies

\* message bodies that senders write
Bodies ==
  { <<"NL">>,
    <<"None">>,
    <<"Out of Office">>,
    <<"Yes", "Nov", "18", "NL">>,
    <<"no-reply">>,
    <<"Yes">> }

\* ------------------------------------------------------------- recruitment
NoScore == -1

Scores == 0..MaxScore

\* x.get("intent_score", 0)
ScoreKey(c) == IF c.intent_score = NoScore THEN 0 ELSE c.intent_score

\* sorted(companies, key=..., reverse=True): stable, so equal keys keep file order
Precedes(cs, i, j) ==
  ScoreKey(cs[i]) > ScoreKey(cs[j]) \/ (ScoreKey(cs[i]) = ScoreKey(cs[j]) /\ i < j)

ranked(cs) ==
  [p \in 1..Len(cs) |->
     CHOOSE i \in 1..Len(cs) : Cardinality({j \in 1..Len(cs) : Precedes(cs, j, i)}) = p - 1]

\* ranked[:3], as the comment on the line has it
Shortlist_three(cs) ==
  LET r == ranked(cs)
  IN SubSeq(r, 1, IF Len(r) < ShortlistSize + 1 THEN Len(r) ELSE ShortlistSize + 1)

\* ranked[:2]
Shortlist(cs) ==
  LET r == ranked(cs)
  IN SubSeq(r, 1, IF Len(r) < ShortlistSize THEN Len(r) ELSE ShortlistSize)

\* process_lead's email_data before it is assigned
NoEmail == [type |-> "unset", keys |-> {}, subject |-> "absent"]

\* a task's result before it returns
NoRecord == [email |-> 0, reply |-> None, status |-> "pending"]

\* scheduler_agent_node's state; judged is what it prints of each reply it
\* classifies (lines 176-177), with the classifier's answer it came from; run
\* counts the invocations, and effects the calendar bookings and follow-up
\* emails requested of the collaborators so far
NoSched ==
  [responses |-> <<>>, idx |-> 0, scheduled_meetings |-> <<>>, follow_ups_sent |-> <<>>,
   judged |-> <<>>, run |-> 1, effects |-> 0]

\* extract_meeting_datetime has not been called on its own
NoCall == [reply_text |-> None, rule |-> "none", kind |-> "none"]

\* no poll of a watcher run on its own yet
NoPoll ==
  [outcome |-> "none", predates |-> FALSE, erred |-> FALSE, only_errors |-> TRUE,
   seen |-> None, shadowed |-> FALSE]

Init ==
  /\ phase = "recruit"
  /\ \E n \in 0..MaxCompanies : companies = [i \in 1..n |-> i]
  /\ shortlisted = <<>>
  /\ clock = 0
  /\ runq = <<>>
  /\ sleepq = <<>>
  /\ pc = [l \in Leads |-> "idle"]
  /\ wake = [l \in Leads |-> 0]
  /\ email_data = [l \in Leads |-> NoEmail]
  /\ total_wait = [l \in Leads |-> 0]
  /\ polls = [l \in Leads |-> 0]
  /\ onlyNoise = [l \in Leads |-> TRUE]
  /\ result = [l \in Leads |-> NoRecord]
  /\ emails_sent = <<>>
  /\ responses = <<>>
  /\ sched = NoSched
  /\ scheduled_meetings = <<>>
  /\ failure = "none"
  /\ resolved = NoCall
  /\ poll_log = NoPoll
  /\ mail_log = <<>>

\* supervisor_agent_node, step 1: recruitment_agent_node scores the companies
\* and shortlists; the ranking model may raise, or leave a company unscored.
\* The scores serve the shortlist alone and no later stage reads them: the
\* state keeps the shortlist.  With a shortlist the supervisor goes on into
\* interaction_agent_node, which creates one task per lead and awaits them.
\* a supervisor that goes on to outreach with nothing shortlisted
NoneShortlisted_ignored(sl) == FALSE

\* supervisor_agent_node line 73: if not shortlisted
NoneShortlisted(sl) == sl = <<>>

Recruit ==
  /\ phase = "recruit"
  /\ \/ /\ phase' = "failed"
        /\ failure' = "recruitment llm"
        /\ UNCHANGED <<shortlisted, runq, pc>>
     \/ \E sc \in [1..Len(companies) -> Scores \cup {NoScore}] :
          LET cs == [i \in 1..Len(companies) |-> [intent_score |-> sc[i]]]
              sl == Shortlist(cs)
          IN /\ shortlisted' = sl
             /\ IF NoneShortlisted(sl)
                THEN /\ phase' = "done"
                     /\ UNCHANGED <<runq, pc>>
                ELSE /\ phase' = "outreach"
                     /\ runq' = sl
                     /\ pc' = [l \in Leads |->
                                 IF \E k \in 1..Len(sl) : sl[k] = l THEN "compose" ELSE "idle"]
             /\ UNCHANGED failure
  /\ UNCHANGED <<companies, clock, sleepq, wake, email_data, total_wait, polls,
                 onlyNoise, result, emails_sent, responses, sched, scheduled_meetings>>
  /\ UNCHANGED <<resolved, poll_log, mail_log>>

\* ---------------------------------------------------------------- outreach
\* what the drafting model returns: text that may be fenced and may or may not
\* be the JSON object asked for
ComposeContents ==
  { [fenced |-> FALSE, json |-> "dict", keys |-> {"subject", "body"}],
    [fenced |-> TRUE, json |-> "dict", keys |-> {"subject", "body"}],
    [fenced |-> FALSE, json |-> "invalid", keys |-> {}],
    [fenced |-> FALSE, json |-> "dict", keys |-> {"subject"}],
    [fenced |-> FALSE, json |-> "list", keys |-> {}] }

\* re.sub(r"^```(json)?|```$", "", content.strip(), flags=re.MULTILINE).strip()
StripFences(content) == [content EXCEPT !.fenced = FALSE]

\* json.loads(cleaned), with the except JSONDecodeError branch
ParseEmail(cleaned) ==
  IF cleaned.fenced \/ cleaned.json = "invalid"
  THEN [type |-> "dict", keys |-> {"subject", "body"}, subject |-> "default"]
  ELSE [type |-> cleaned.json, keys |-> cleaned.keys, subject |-> "llm"]

\* email_data["subject"] and email_data["body"] evaluate without KeyError/TypeError
Subscriptable(ed) == ed.type = "dict" /\ {"subject", "body"} \subseteq ed.keys

send_email_smtp(to_email, subject, delivered) ==
  IF delivered
  THEN [email |-> to_email, status |-> "sent", subject |-> subject, error |-> "absent"]
  ELSE [email |-> to_email, status |-> "failed", subject |-> "absent", error |-> "smtp"]

\* the task at the head of the ready queue is the one the event loop runs
Running(l) == phase = "outreach" /\ runq # <<>> /\ Head(runq) = l

\* a process_lead that starts watching for the reply before it has sent
AfterCompose_watch == "poll"

\* where process_lead goes once email_data is parsed: on to the send
AfterCompose == "send"

\* process_lead up to the parsed email_data: llm.invoke may raise, and then the
\* task returns a "failed" record at once
Compose(l) ==
  /\ Running(l)
  /\ pc[l] = "compose"
  /\ \/ /\ result' = [result EXCEPT ![l] = [email |-> l, reply |-> None, status |-> "failed"]]
        /\ pc' = [pc EXCEPT ![l] = "done"]
        /\ runq' = Tail(runq)
        /\ UNCHANGED email_data
     \/ \E content \in ComposeContents :
          /\ email_data' = [email_data EXCEPT ![l] = ParseEmail(StripFences(content))]
          /\ pc' = [pc EXCEPT ![l] = AfterCompose]
          /\ UNCHANGED <<result, runq>>
  /\ UNCHANGED <<phase, companies, shortlisted, clock, sleepq, wake,
                 total_wait, polls, onlyNoise, emails_sent, responses, sched,
                 scheduled_meetings, failure>>
  /\ UNCHANGED <<resolved, poll_log, mail_log>>

\* process_lead giving up on a lead whose send failed
AfterSend_skip(delivered) == IF delivered THEN "poll" ELSE "done"

\* where process_lead goes once send_email_smtp has returned: a failed send is
\* recorded like a successful one and the task enters wait_for_reply
AfterSend(delivered) == "poll"

\* process_lead lines 188-193: subscript email_data, send, record, enter wait_for_reply
Send(l) ==
  /\ Running(l)
  /\ pc[l] = "send"
  /\ IF Subscriptable(email_data[l])
     THEN \E delivered \in BOOLEAN :
            /\ emails_sent' =
                 Append(emails_sent, send_email_smtp(l, email_data[l].subject, delivered))
            /\ pc' = [pc EXCEPT ![l] = AfterSend(delivered)]
            /\ total_wait' = [total_wait EXCEPT ![l] = 0]
            /\ runq' = IF AfterSend(delivered) = "poll" THEN runq ELSE Tail(runq)
     ELSE /\ pc' = [pc EXCEPT ![l] = "raised"]
          /\ runq' = Tail(runq)
          /\ UNCHANGED <<emails_sent, total_wait>>
  /\ UNCHANGED <<phase, companies, shortlisted, clock, sleepq, wake,
                 email_data, polls, onlyNoise, result, responses, sched,
                 scheduled_meetings, failure>>
  /\ UNCHANGED <<resolved, poll_log, mail_log>>

\* a reader that goes back to the newest message that gives a snippet
RECURSIVE read_latest_reply_scan(_, _)
read_latest_reply_scan(box, imap_error) ==
  IF imap_error \/ box = <<>> THEN None
  ELSE IF Truthy(SnippetOf(box[Len(box)])) THEN SnippetOf(box[Len(box)])
  ELSE read_latest_reply_scan(SubSeq(box, 1, Len(box) - 1), imap_error)

\* a reader whose IMAP error does not turn the poll into "no reply"
read_latest_reply_uncaught(box, imap_error) ==
  IF box = <<>> THEN None ELSE SnippetOf(box[Len(box)])

\* read_latest_reply: the newest message of the sender, cleaned and filtered;
\* any IMAP error is caught and gives None
read_latest_reply(box, imap_error) ==
  IF imap_error \/ box = <<>> THEN None ELSE SnippetOf(box[Len(box)])

\* wait_for_reply's return for a truthy reply
Replied(from_email, reply) ==
  [email |-> from_email,
   reply |-> IF lower(strip(reply)) \in {<<"none">>, <<"null">>, <<"no reply">>}
             THEN None ELSE reply,
   status |-> "replied"]

\* timeout_minutes * 60
TimeoutSec == timeout_minutes * 60

\* a loop test that lets one more poll in at the timeout
WithinTimeout_inclusive(waited) == waited <= TimeoutSec

\* wait_for_reply's loop test
WithinTimeout(waited) == waited < TimeoutSec

\* what the mailbox can hold of one sender when it is polled, oldest first
Boxes == UNION {[1..n -> Bodies] : n \in 0..MaxMsgs}

\* the poll found a system message as the sender's newest message
SawNoise(box, imap_error) ==
  ~imap_error /\ box # <<>> /\ IsNoise(CleanBody(box[Len(box)]))

\* One turn of wait_for_reply's loop, up to its return or its await.  The locals
\* of a coroutine that returns are gone: only its result is kept for gather.
PollWith(l, imap_error, box) ==
  /\ Running(l)
  /\ pc[l] = "poll"
  /\ runq' = Tail(runq)
  /\ IF WithinTimeout(total_wait[l])
     THEN   LET reply == read_latest_reply(box, imap_error)
            IN /\ onlyNoise' = [onlyNoise EXCEPT ![l] = @ /\ SawNoise(box, imap_error)]
               /\ IF Truthy(reply)
                  THEN /\ result' = [result EXCEPT ![l] = Replied(l, reply)]
                       /\ pc' = [pc EXCEPT ![l] = "done"]
                       /\ total_wait' = [total_wait EXCEPT ![l] = 0]
                       /\ polls' = [polls EXCEPT ![l] = 0]
                       /\ wake' = [wake EXCEPT ![l] = 0]
                       /\ UNCHANGED sleepq
                  ELSE /\ pc' = [pc EXCEPT ![l] = "sleep"]
                       /\ polls' = [polls EXCEPT ![l] = @ + 1]
                       /\ sleepq' = Append(sleepq, l)
                       /\ wake' = [wake EXCEPT ![l] = clock + interval_sec]
                       /\ UNCHANGED <<result, total_wait>>
     ELSE /\ result' = [result EXCEPT ![l] = [email |-> l, reply |-> None, status |-> "no_reply"]]
          /\ pc' = [pc EXCEPT ![l] = "done"]
          /\ total_wait' = [total_wait EXCEPT ![l] = 0]
          /\ polls' = [polls EXCEPT ![l] = 0]
          /\ wake' = [wake EXCEPT ![l] = 0]
          /\ UNCHANGED <<sleepq, onlyNoise>>
  /\ UNCHANGED <<phase, companies, shortlisted, clock, email_data, emails_sent, responses,
                 sched, scheduled_meetings, failure>>
  /\ UNCHANGED <<resolved, mail_log>>

\* a turn of a watcher of the pipeline, over what the IMAP search returns; a
\* session that fails returns nothing
Poll(l) ==
  /\ \E imap_error \in BOOLEAN :
       \E box \in IF imap_error THEN {<<>>} ELSE Boxes : PollWith(l, imap_error, box)
  /\ UNCHANGED poll_log

Raised == \E l \in Leads : pc[l] = "raised"

\* a sleep that blocks the event loop (time.sleep): the sleepers wait in turn
NextWake_blocking == wake[Head(sleepq)] + interval_sec * (Len(sleepq) - 1)

\* the clock value the event loop sleeps to: the earliest timer
NextWake == wake[Head(sleepq)]

\* the event loop is idle: it sleeps to the earliest timer and resumes the tasks
\* whose asyncio.sleep has ended, each adding interval_sec to its total_wait
Tick ==
  /\ phase = "outreach"
  /\ runq = <<>>
  /\ sleepq # <<>>
  /\ ~Raised
  /\ clock' = NextWake
  /\ runq' = SelectSeq(sleepq, LAMBDA l : wake[l] <= NextWake)
  /\ sleepq' = SelectSeq(sleepq, LAMBDA l : wake[l] > NextWake)
  /\ pc' = [l \in Leads |-> IF pc[l] = "sleep" /\ wake[l] <= NextWake THEN "poll" ELSE pc[l]]
  /\ total_wait' = [l \in Leads |->
       IF pc[l] = "sleep" /\ wake[l] <= NextWake THEN total_wait[l] + interval_sec
       ELSE total_wait[l]]
  /\ UNCHANGED <<phase, companies, shortlisted, wake, email_data, polls,
                 onlyNoise, result, emails_sent, responses, sched, scheduled_meetings,
                 failure>>
  /\ UNCHANGED <<resolved, poll_log, mail_log>>

\* a supervisor that invokes the scheduler whatever the valid replies are
SkipScheduler_never(valid_replies) == FALSE

\* supervisor_agent_node line 120: if not valid_replies
SkipScheduler(valid_replies) == valid_replies = <<>>

\* a validity test that only asks for a non-empty reply
has_valid_reply_nonempty(r) == Truthy(r.reply)

\* has_valid_reply's blocklist of automated-message substrings
blocklist == {"drive.google.com", "no-reply", "automated message", "requests access"}

has_valid_reply(r) ==
  /\ Truthy(r.reply)
  /\ ~\E bad \in blocklist : Contains(lower(strip(r.reply)), bad)
  /\ lower(strip(r.reply)) \notin {<<"none">>, <<"null">>, <<>>, <<"no reply">>}

\* supervisor_agent_node lines 104-107: sentinel strings become None
Normalize(r) ==
  IF IsStr(r.reply) /\ lower(strip(r.reply)) \in {<<"none">>, <<"null">>, <<>>}
  THEN [r EXCEPT !.reply = None]
  ELSE r

\* a join that collects the tasks' results twice over
Gathered_twice ==
  [k \in 1..(2 * Len(shortlisted)) |-> result[shortlisted[((k - 1) % Len(shortlisted)) + 1]]]

\* asyncio.gather's results, in task order; every record is truthy and is kept
Gathered == [k \in 1..Len(shortlisted) |-> result[shortlisted[k]]]

AllDone == \A k \in 1..Len(shortlisted) : pc[shortlisted[k]] = "done"

\* every task has finished: interaction_agent_node returns, and the supervisor
\* normalizes the responses, filters the valid replies and enters the scheduler
\* or skips it (supervisor_agent_node lines 100-131).  loop.close() ends the
\* event loop, and with it the clock and what is left of the tasks.
JoinOk ==
  /\ phase = "outreach"
  /\ runq = <<>>
  /\ AllDone
  /\ LET rs == [k \in 1..Len(Gathered) |-> Normalize(Gathered[k])]
         valid_replies == SelectSeq(rs, has_valid_reply)
     IN /\ responses' = rs
        /\ IF SkipScheduler(valid_replies)
           THEN /\ phase' = "analytics"
                /\ UNCHANGED sched
           ELSE /\ phase' = "schedule"
                /\ sched' = [NoSched EXCEPT !.responses = valid_replies, !.idx = 1]
  /\ clock' = 0
  /\ email_data' = [l \in Leads |-> NoEmail]
  /\ onlyNoise' = [l \in Leads |-> TRUE]
  /\ result' = [l \in Leads |-> NoRecord]
  /\ UNCHANGED <<companies, shortlisted, runq, sleepq, pc, wake, total_wait, polls,
                 emails_sent, scheduled_meetings, failure>>
  /\ UNCHANGED <<resolved, poll_log, mail_log>>

\* a task raised: once the tasks that were ready have run, gather hands the
\* exception to interaction_agent_node, run_until_complete re-raises it in the
\* supervisor and the tasks still sleeping are never resumed
JoinFail ==
  /\ phase = "outreach"
  /\ runq = <<>>
  /\ Raised
  /\ phase' = "failed"
  /\ failure' = "process_lead"
  /\ UNCHANGED <<companies, shortlisted, clock, runq, sleepq, pc, wake,
                 email_data, total_wait, polls, onlyNoise, result, emails_sent, responses,
                 sched, scheduled_meetings>>
  /\ UNCHANGED <<resolved, poll_log, mail_log>>

\* -------------------------------------------------------------- scheduling
DateWords == {"mon", "tue", "wed", "thu", "fri", "sat", "sun", "jan", "feb", "mar",
              "apr", "may", "jun", "jul", "aug", "sep", "oct", "nov", "dec"}

\* the number a token reads as, or -1
NumberOf(t) ==
  CASE t = "18" -> 18
    [] t = "3pm" -> 3
    [] t = "25" -> 25
    [] t = "10:30" -> 10
    [] t = "29" -> 29
    [] t \in {"2020", "2024"} -> 20
    [] OTHER -> -1

\* \b\d{1,2}\b: a number standing as a word of its own
IsDayNumber(t) == t \in {"18", "25", "29"}

\* characters between token i and token j of s, tokens being one space apart
RECURSIVE Gap(_, _, _)
Gap(s, i, j) == IF j <= i + 1 THEN 1 ELSE TokLen(s[i + 1]) + 1 + Gap(s, i + 1, j)

\* scheduler_agent_node's re.search for a weekday or month name followed, within
\* 20 characters, by a day number; the lazy tail matches nothing, so the match
\* ends at the number.  None when there is no match.
date_match(s) ==
  LET hits == {i \in 1..Len(s) :
                 /\ LowerTok(s[i]) \in DateWords
                 /\ \E j \in (i + 1)..Len(s) : IsDayNumber(s[j]) /\ Gap(s, i, j) <= 20}
  IN IF hits = {} THEN None
     ELSE LET i == CHOOSE x \in hits : \A y \in hits : x <= y
              j == CHOOSE x \in (i + 1)..Len(s) :
                     /\ IsDayNumber(s[x]) /\ Gap(s, i, x) <= 20
                     /\ \A y \in (i + 1)..(x - 1) : ~IsDayNumber(s[y])
          IN SubSeq(s, i, j)

\* whether dateutil's fuzzy parser finds a date in the text
DateLike(txt) ==
  \E i \in 1..Len(txt) : txt[i] \in DateWords \/ NumberOf(txt[i]) >= 0

\* extract_meeting_datetime, by outcome: "time" for a datetime, "none" for None,
\* "raise" for the ValueError of datetime.replace(hour=...) with an hour over 23.
\* The outcome is the one of extract_meeting_datetime_at for every now but a
\* 29 February and every text that names no 29 February and no time zone.
extract_meeting_datetime(reply_text) ==
  IF ~Truthy(reply_text) THEN "none"
  ELSE LET txt == lower(strip(reply_text))
           nums == {i \in 1..Len(txt) : NumberOf(txt[i]) >= 0}
       IN IF Contains(txt, "tomorrow")
          THEN IF nums # {} /\ NumberOf(txt[CHOOSE i \in nums : \A k \in nums : i <= k]) > 23
               THEN "raise" ELSE "time"
          ELSE IF Contains(txt, "next week") THEN "time"
          ELSE IF DateLike(txt) THEN "time"
          ELSE "none"

\* what the intent model returns for a reply: JSON of the asked shape, whose
\* availability is null, the date it found or a vague phrase; or text that is
\* not JSON; or JSON that is no object; or JSON whose sentiment is a label
\* other than the three asked for
IntentContents(reply_text) ==
  {[json |-> "invalid", sentiment |-> "neutral", availability |-> None],
   [json |-> "list", sentiment |-> "neutral", availability |-> None],
   [json |-> "dict", sentiment |-> "interested", availability |-> <<"soon">>]}
  \cup [json : {"dict"}, sentiment : {"positive", "neutral", "negative"},
        availability : {None, <<"soon">>} \cup {date_match(reply_text)}]

\* json.loads(intent_json) with its except branch
ParseIntent(content) ==
  IF content.json = "invalid"
  THEN [sentiment |-> "neutral", availability |-> None]
  ELSE [sentiment |-> content.sentiment, availability |-> content.availability]

\* intent_data.get(...) evaluates: json.loads gave a dict, or the default was used
HasGet(content) == content.json # "list"

\* the override that fills in the availability and leaves the sentiment alone
Augment_keep(intent_data, reply_text) ==
  IF ~Truthy(intent_data.availability) /\ date_match(reply_text) # None
  THEN [sentiment |-> intent_data.sentiment, availability |-> date_match(reply_text)]
  ELSE intent_data

\* lines 164-171: a date mention in the reply overrides the model
Augment(intent_data, reply_text) ==
  IF ~Truthy(intent_data.availability) /\ date_match(reply_text) # None
  THEN [sentiment |-> "positive", availability |-> date_match(reply_text)]
  ELSE intent_data

\* an except arm that returns the address alone, without the error
create_calendar_event_silent(to_email, booked) ==
  IF booked
  THEN [email |-> to_email, event_id |-> "id", error |-> "absent"]
  ELSE [email |-> to_email, event_id |-> "absent", error |-> "absent"]

create_calendar_event(to_email, booked) ==
  IF booked
  THEN [email |-> to_email, event_id |-> "id", error |-> "absent"]
  ELSE [email |-> to_email, event_id |-> "absent", error |-> "calendar"]

\* a scheduler that also answers the replies it judged negative
ActsOn_declined(sentiment) == sentiment # "neutral"

\* a scheduler that acts on every reply that did not decline
ActsOn_not_negative(sentiment) == sentiment # "negative"

\* a scheduler that acts on every label it does not know as a refusal
ActsOn_unknown(sentiment) == sentiment \notin {"negative", "neutral"}

\* line 180: only a positive reply is acted on
ActsOn(sentiment) == sentiment = "positive"

\* a follow-up record that tells whether the email went out
FollowUpRecord_honest(email_addr, delivered) ==
  [email |-> email_addr,
   status |-> IF delivered THEN "follow-up sent" ELSE "follow-up failed"]

\* lines 198-199: send_followup_email catches its SMTP failure and returns
\* nothing, and the record appended says "follow-up sent" either way
FollowUpRecord(email_addr, delivered) ==
  [email |-> email_addr, status |-> "follow-up sent"]

\* the reply the scheduler's loop stands at
CurrentReply == sched.responses[sched.idx]

\* lines 157-158: a record without a reply text is passed over
SchedSkip ==
  /\ ~Truthy(CurrentReply.reply)
  /\ sched' = [sched EXCEPT !.idx = @ + 1]
  /\ UNCHANGED <<phase, failure>>

\* line 161: the call of the intent model raises
IntentRaises ==
  /\ Truthy(CurrentReply.reply)
  /\ phase' = "failed"
  /\ failure' = "intent llm"
  /\ UNCHANGED sched

\* the turn takes the follow-up arm (lines 190-199) and asks the mail
\* collaborator to send the availability request
AsksMail(content) ==
  /\ Truthy(CurrentReply.reply)
  /\ HasGet(content)
  /\ LET intent_data == Augment(ParseIntent(content), CurrentReply.reply)
         source == IF Truthy(intent_data.availability)
                   THEN intent_data.availability ELSE CurrentReply.reply
     IN ActsOn(intent_data.sentiment) /\ extract_meeting_datetime(source) = "none"

\* lines 161-203 for the answer `content` of the intent model; `served` tells
\* whether the collaborator the turn calls, calendar or mail, does its work
SchedJudge(content, served) ==
  /\ Truthy(CurrentReply.reply)
  /\ LET r == CurrentReply
         skip == [sched EXCEPT !.idx = @ + 1]
         intent_data == Augment(ParseIntent(content), r.reply)
         source == IF Truthy(intent_data.availability)
                   THEN intent_data.availability ELSE r.reply
         meeting_time == extract_meeting_datetime(source)
         next == [skip EXCEPT !.judged =
                    Append(@, [email |-> r.email,
                               sentiment |-> intent_data.sentiment,
                               availability |-> intent_data.availability,
                               classified |-> content])]
     IN IF ~HasGet(content)
        THEN /\ phase' = "failed"
             /\ failure' = "intent shape"
             /\ UNCHANGED sched
        ELSE IF ~ActsOn(intent_data.sentiment)
        THEN /\ sched' = next
             /\ UNCHANGED <<phase, failure>>
        ELSE IF meeting_time = "raise"
        THEN /\ phase' = "failed"
             /\ failure' = "extract_meeting_datetime"
             /\ UNCHANGED sched
        ELSE IF meeting_time = "time"
        THEN /\ sched' = [next EXCEPT !.scheduled_meetings =
                            Append(@, create_calendar_event(r.email, served)),
                          !.effects = @ + 1]
             /\ UNCHANGED <<phase, failure>>
        ELSE /\ sched' = [next EXCEPT !.follow_ups_sent =
                            Append(@, FollowUpRecord(r.email, served)),
                          !.effects = @ + 1]
             /\ UNCHANGED <<phase, failure>>

\* what a turn of the scheduler leaves alone
SchedFrame ==
  /\ UNCHANGED <<companies, shortlisted, clock, runq, sleepq, pc, wake,
                 email_data, total_wait, polls, onlyNoise, result, emails_sent, responses,
                 scheduled_meetings>>
  /\ UNCHANGED <<resolved, poll_log>>

\* one turn of scheduler_agent_node's loop over the valid replies
SchedStep ==
  /\ phase = "schedule"
  /\ sched.idx <= Len(sched.responses)
  /\ \/ SchedSkip
     \/ IntentRaises
     \/ \E content \in IntentContents(CurrentReply.reply), served \in BOOLEAN :
          SchedJudge(content, served)
  /\ SchedFrame
  /\ UNCHANGED mail_log

\* scheduler_agent_node returns; the supervisor keeps its scheduled_meetings
SchedReturn ==
  /\ phase = "schedule"
  /\ sched.idx > Len(sched.responses)
  /\ scheduled_meetings' = sched.scheduled_meetings
  /\ phase' = "analytics"
  /\ UNCHANGED <<companies, shortlisted, clock, runq, sleepq, pc, wake,
                 email_data, total_wait, polls, onlyNoise, result, emails_sent, responses,
                 sched, failure>>
  /\ UNCHANGED <<resolved, poll_log, mail_log>>

\* supervisor_agent_node step 4 and its return: analytics_agent_node runs over
\* the transcripts on file and may raise in its model call
Analytics ==
  /\ phase = "analytics"
  /\ \/ /\ phase' = "done"
        /\ UNCHANGED failure
     \/ /\ phase' = "failed"
        /\ failure' = "analytics"
  /\ UNCHANGED <<companies, shortlisted, clock, runq, sleepq, pc, wake,
                 email_data, total_wait, polls, onlyNoise, result, emails_sent, responses,
                 sched, scheduled_meetings>>
  /\ UNCHANGED <<resolved, poll_log, mail_log>>

\* ------------------------------------------------- the scheduler on its own
\* reply texts handed to scheduler_graph.invoke by the standalone demo or the
\* Scheduler section of the UI
SchedReplies ==
  { <<"Yes", "Nov", "18">>, <<"Yes">>, <<"Tomorrow", "25">>, None }

\* scheduler_graph.invoke(init_state) with empty result lists
SchedInit ==
  /\ phase = "schedule"
  /\ \E n \in 1..MaxReplies : \E texts \in [1..n -> SchedReplies] :
       sched = [NoSched EXCEPT
                  !.responses = [k \in 1..n |->
                                   [email |-> k, reply |-> texts[k], status |-> "replied"]],
                  !.idx = 1]
  /\ companies = <<>>
  /\ shortlisted = <<>>
  /\ clock = 0
  /\ runq = <<>>
  /\ sleepq = <<>>
  /\ pc = [l \in Leads |-> "idle"]
  /\ wake = [l \in Leads |-> 0]
  /\ email_data = [l \in Leads |-> NoEmail]
  /\ total_wait = [l \in Leads |-> 0]
  /\ polls = [l \in Leads |-> 0]
  /\ onlyNoise = [l \in Leads |-> TRUE]
  /\ result = [l \in Leads |-> NoRecord]
  /\ emails_sent = <<>>
  /\ responses = <<>>
  /\ scheduled_meetings = <<>>
  /\ failure = "none"
  /\ resolved = NoCall
  /\ poll_log = NoPoll
  /\ mail_log = <<>>

\* the UI's "Schedule Meetings" button pressed again: the scheduler is invoked
\* over the same responses with fresh result lists
ScheduleAgain ==
  /\ phase = "analytics"
  /\ sched.run < MaxRuns
  /\ phase' = "schedule"
  /\ sched' = [NoSched EXCEPT !.responses = sched.responses, !.idx = 1,
                              !.run = sched.run + 1, !.effects = sched.effects]
  /\ UNCHANGED <<companies, shortlisted, clock, runq, sleepq, pc, wake,
                 email_data, total_wait, polls, onlyNoise, result, emails_sent, responses,
                 scheduled_meetings, failure, resolved, poll_log, mail_log>>

SchedNext ==
  \/ SchedStep
  \/ SchedReturn
  \/ ScheduleAgain

SchedSpec == SchedInit /\ [][SchedNext]_vars

\* --------------------------------------------------- the resolver on its own
\* A datetime is [year, month, day, hour, minute]: times are whole minutes.
NoDate == [year |-> 0, month |-> 0, day |-> 0, hour |-> 0, minute |-> 0]

IsLeap(y) == (y % 4 = 0 /\ y % 100 # 0) \/ y % 400 = 0

DaysIn(y, m) ==
  IF m = 2 THEN (IF IsLeap(y) THEN 29 ELSE 28)
  ELSE IF m \in {4, 6, 9, 11} THEN 30 ELSE 31

ValidDate(y, m, d) == m \in 1..12 /\ d \in 1..DaysIn(y, m)

\* a < b on datetimes
Before(a, b) ==
  \/ a.year < b.year
  \/ a.year = b.year /\ a.month < b.month
  \/ a.year = b.year /\ a.month = b.month /\ a.day < b.day
  \/ a.year = b.year /\ a.month = b.month /\ a.day = b.day /\ a.hour < b.hour
  \/ a.year = b.year /\ a.month = b.month /\ a.day = b.day /\ a.hour = b.hour
       /\ a.minute < b.minute

NextDay(dt) ==
  IF dt.day < DaysIn(dt.year, dt.month) THEN [dt EXCEPT !.day = @ + 1]
  ELSE IF dt.month < 12 THEN [dt EXCEPT !.day = 1, !.month = @ + 1]
  ELSE [dt EXCEPT !.day = 1, !.month = 1, !.year = @ + 1]

\* dt + timedelta(days=n)
RECURSIVE AddDays(_, _)
AddDays(dt, n) == IF n = 0 THEN dt ELSE AddDays(NextDay(dt), n - 1)

\* group 2 of the hour pattern: the minutes, 0 when there are none
MinuteOf(t) == IF t = "10:30" THEN 30 ELSE 0

\* group 3 of the hour pattern
Meridiem(t) == IF t = "3pm" THEN "pm" ELSE "none"

\* which rule of extract_meeting_datetime a lowered text falls under, were the
\* fuzzy parse tried before the "next week" rule
Rule_fuzzy_first(txt) ==
  IF Contains(txt, "tomorrow") THEN "tomorrow"
  ELSE IF DateLike(txt) THEN "fuzzy"
  ELSE IF Contains(txt, "next week") THEN "next week"
  ELSE "fuzzy"

\* which rule of extract_meeting_datetime a lowered text falls under (lines 66, 76, 80)
Rule(txt) ==
  IF Contains(txt, "tomorrow") THEN "tomorrow"
  ELSE IF Contains(txt, "next week") THEN "next week"
  ELSE "fuzzy"

\* a correction that adds one year to the parsed date's own year
AdvancedYear_parsed(parsed_at, today) == parsed_at.year + 1

\* line 84: the year a parsed date in the past is moved to
AdvancedYear(parsed_at, today) == today.year + 1

\* the result records of extract_meeting_datetime
Resolved(rule, kind, t) == [rule |-> rule, kind |-> kind, t |-> t]

\* extract_meeting_datetime(reply_text) at datetime.now() = today, parsed being
\* what dateutil's fuzzy parser answers for the text: a naive datetime, a
\* timezone-aware one (whose comparison with today raises TypeError), or an
\* error.  The exceptions of the fuzzy rule are caught and give None; the
\* ValueError of today.replace in the "tomorrow" rule is not.
extract_meeting_datetime_at(reply_text, today, parsed) ==
  IF ~Truthy(reply_text) THEN Resolved("empty", "none", NoDate)
  ELSE
    LET txt == lower(strip(reply_text))
        nums == {i \in 1..Len(txt) : NumberOf(txt[i]) >= 0}
    IN IF Rule(txt) = "tomorrow"
       THEN IF nums # {}
            THEN LET tok == txt[CHOOSE i \in nums : \A k \in nums : i <= k]
                     minute == MinuteOf(tok)
                     hour == IF Meridiem(tok) = "pm" /\ NumberOf(tok) < 12
                             THEN NumberOf(tok) + 12 ELSE NumberOf(tok)
                 IN IF hour > 23 \/ minute > 59
                    THEN Resolved("tomorrow", "raise", NoDate)
                    ELSE Resolved("tomorrow", "time",
                                  AddDays([today EXCEPT !.hour = hour, !.minute = minute], 1))
            ELSE Resolved("tomorrow", "time", AddDays(today, 1))
       ELSE IF Rule(txt) = "next week"
       THEN Resolved("next week", "time", AddDays(today, 7))
       ELSE IF parsed.kind # "naive" THEN Resolved("fuzzy", "none", NoDate)
       ELSE IF Before(parsed.at, today)
       THEN IF ValidDate(AdvancedYear(parsed.at, today), parsed.at.month, parsed.at.day)
            THEN Resolved("fuzzy", "time",
                          [parsed.at EXCEPT !.year = AdvancedYear(parsed.at, today)])
            ELSE Resolved("fuzzy", "none", NoDate)
       ELSE Resolved("fuzzy", "time", parsed.at)

\* texts handed to extract_meeting_datetime
ResolveTexts ==
  { None, <<"yes">>, <<"Tomorrow">>, <<"tomorrow", "3pm">>, <<"tomorrow", "10:30">>,
    <<"tomorrow", "25">>, <<"next week">>, <<"tomorrow", "next week">>,
    <<"next week", "nov", "18">>, <<"nov", "18">>, <<"nov", "18", "2020">>,
    <<"dec", "25", "2024">>, <<"feb", "29">>, <<"feb", "29", "2024">>, <<"3pm">>,
    <<"nov", "18", "utc">> }

\* values of datetime.now()
Nows ==
  {dt \in [year : {2024, 2025}, month : {1, 2, 11, 12}, day : {5, 10, 18, 28, 29, 31},
           hour : {9, 16}, minute : {0, 30}] : ValidDate(dt.year, dt.month, dt.day)}

NotParsed == [kind |-> "error", at |-> NoDate]

MonthOf(t) ==
  CASE t = "feb" -> 2
    [] t = "nov" -> 11
    [] t = "dec" -> 12
    [] OTHER -> 0

YearOf(t) ==
  CASE t = "2020" -> 2020
    [] t = "2024" -> 2024
    [] OTHER -> 0

DayOf(t) == IF IsDayNumber(t) THEN NumberOf(t) ELSE 0

ClockHourOf(t) == IF t = "3pm" THEN 15 ELSE 0

\* the first token of txt that names a year, a month, a day or an hour, or "absent"
FirstYear(txt) ==
  LET hits == {i \in 1..Len(txt) : YearOf(txt[i]) > 0}
  IN IF hits = {} THEN "absent" ELSE txt[CHOOSE i \in hits : \A k \in hits : i <= k]

FirstMonth(txt) ==
  LET hits == {i \in 1..Len(txt) : MonthOf(txt[i]) > 0}
  IN IF hits = {} THEN "absent" ELSE txt[CHOOSE i \in hits : \A k \in hits : i <= k]

FirstDay(txt) ==
  LET hits == {i \in 1..Len(txt) : DayOf(txt[i]) > 0}
  IN IF hits = {} THEN "absent" ELSE txt[CHOOSE i \in hits : \A k \in hits : i <= k]

FirstClockHour(txt) ==
  LET hits == {i \in 1..Len(txt) : ClockHourOf(txt[i]) > 0}
  IN IF hits = {} THEN "absent" ELSE txt[CHOOSE i \in hits : \A k \in hits : i <= k]

\* dparser.parse(txt, fuzzy=True, default=today): the fields the text names
\* replace those of today (a day the text does not name is cut to the length
\* of the month); a text that names none, or names a date that does not
\* exist, is an error; a text with a time zone gives an aware datetime
fuzzy_parse(txt, today) ==
  LET year == IF FirstYear(txt) # "absent" THEN YearOf(FirstYear(txt)) ELSE today.year
      month == IF FirstMonth(txt) # "absent" THEN MonthOf(FirstMonth(txt)) ELSE today.month
      day == IF FirstDay(txt) # "absent" THEN DayOf(FirstDay(txt))
             ELSE IF today.day > DaysIn(year, month) THEN DaysIn(year, month)
             ELSE today.day
      hour == IF FirstClockHour(txt) # "absent" THEN ClockHourOf(FirstClockHour(txt))
              ELSE today.hour
      named == {FirstYear(txt), FirstMonth(txt), FirstDay(txt), FirstClockHour(txt)}
  IN IF named = {"absent"} \/ ~ValidDate(year, month, day) THEN NotParsed
     ELSE [kind |-> IF Contains(txt, "utc") THEN "aware" ELSE "naive",
           at |-> [year |-> year, month |-> month, day |-> day, hour |-> hour,
                   minute |-> today.minute]]

\* what the fuzzy parser answers in a call, when the call reaches it
ParseOutcome(reply_text, today) ==
  IF ~Truthy(reply_text) \/ Rule(lower(strip(reply_text))) # "fuzzy" THEN NotParsed
  ELSE fuzzy_parse(lower(strip(reply_text)), today)

\* a call of extract_meeting_datetime that has not returned
Call(reply_text, today, parsed) ==
  [reply_text |-> reply_text, today |-> today, parsed |-> parsed,
   rule |-> "called", kind |-> "pending", t |-> NoDate]

ResolveInit ==
  /\ \E reply_text \in ResolveTexts, today \in Nows :
       resolved = Call(reply_text, today, ParseOutcome(reply_text, today))
  /\ phase = "resolve"
  /\ sched = NoSched
  /\ companies = <<>>
  /\ shortlisted = <<>>
  /\ clock = 0
  /\ runq = <<>>
  /\ sleepq = <<>>
  /\ pc = [l \in Leads |-> "idle"]
  /\ wake = [l \in Leads |-> 0]
  /\ email_data = [l \in Leads |-> NoEmail]
  /\ total_wait = [l \in Leads |-> 0]
  /\ polls = [l \in Leads |-> 0]
  /\ onlyNoise = [l \in Leads |-> TRUE]
  /\ result = [l \in Leads |-> NoRecord]
  /\ emails_sent = <<>>
  /\ responses = <<>>
  /\ scheduled_meetings = <<>>
  /\ failure = "none"
  /\ poll_log = NoPoll
  /\ mail_log = <<>>

\* extract_meeting_datetime runs and returns or raises
Resolve ==
  /\ phase = "resolve"
  /\ resolved.kind = "pending"
  /\ LET out == extract_meeting_datetime_at(resolved.reply_text, resolved.today,
                                            resolved.parsed)
     IN resolved' = [resolved EXCEPT !.rule = out.rule, !.kind = out.kind, !.t = out.t]
  /\ UNCHANGED <<phase, companies, shortlisted, clock, runq, sleepq, pc, wake,
                 email_data, total_wait, polls, onlyNoise, result, emails_sent, responses,
                 sched, scheduled_meetings, failure, poll_log, mail_log>>

ResolveNext == Resolve

ResolveSpec == ResolveInit /\ [][ResolveNext]_vars

\* --------------------------------- the scheduler over a state with records
\* a scheduler that starts from empty lists whatever its input state holds
InputRecords_fresh(given) == <<>>

\* state.get("scheduled_meetings", []) and state.get("follow_ups_sent", []):
\* the node works on the lists of its input state
InputRecords(given) == given

\* reply texts of the input state
AppendReplies == { <<"Yes", "Nov", "18">>, <<"Yes">> }

\* scheduler_graph.invoke(state) about to run over a state whose lists may hold
\* the records of an earlier invocation, for the first lead
AppendInit ==
  /\ phase = "invoke"
  /\ \E n \in 1..MaxReplies : \E texts \in [1..n -> AppendReplies] :
       \E meetings \in {<<>>, <<create_calendar_event(1, TRUE)>>},
          follow_ups \in {<<>>, <<[email |-> 1, status |-> "follow-up sent"]>>} :
         sched = [NoSched EXCEPT
                    !.responses = [k \in 1..n |->
                                     [email |-> k, reply |-> texts[k], status |-> "replied"]],
                    !.scheduled_meetings = meetings,
                    !.follow_ups_sent = follow_ups]
  /\ companies = <<>>
  /\ shortlisted = <<>>
  /\ clock = 0
  /\ runq = <<>>
  /\ sleepq = <<>>
  /\ pc = [l \in Leads |-> "idle"]
  /\ wake = [l \in Leads |-> 0]
  /\ email_data = [l \in Leads |-> NoEmail]
  /\ total_wait = [l \in Leads |-> 0]
  /\ polls = [l \in Leads |-> 0]
  /\ onlyNoise = [l \in Leads |-> TRUE]
  /\ result = [l \in Leads |-> NoRecord]
  /\ emails_sent = <<>>
  /\ responses = <<>>
  /\ scheduled_meetings = <<>>
  /\ failure = "none"
  /\ resolved = NoCall
  /\ poll_log = NoPoll
  /\ mail_log = <<>>

\* scheduler_agent_node lines 150-152: the node reads its input state
SchedEnter ==
  /\ phase = "invoke"
  /\ phase' = "schedule"
  /\ sched' = [sched EXCEPT !.scheduled_meetings = InputRecords(@),
                            !.follow_ups_sent = InputRecords(@),
                            !.idx = 1]
  /\ UNCHANGED <<companies, shortlisted, clock, runq, sleepq, pc, wake,
                 email_data, total_wait, polls, onlyNoise, result, emails_sent, responses,
                 scheduled_meetings, failure, resolved, poll_log, mail_log>>

\* one turn of the scheduler's loop, with the follow-up email it asked for, if
\* any, written down together with what became of it
SchedStepLogged ==
  /\ phase = "schedule"
  /\ sched.idx <= Len(sched.responses)
  /\ \/ SchedSkip /\ UNCHANGED mail_log
     \/ IntentRaises /\ UNCHANGED mail_log
     \/ \E content \in IntentContents(CurrentReply.reply), served \in BOOLEAN :
          /\ SchedJudge(content, served)
          /\ mail_log' = IF AsksMail(content)
                         THEN Append(mail_log, [email |-> CurrentReply.email,
                                                delivered |-> served])
                         ELSE mail_log
  /\ SchedFrame

AppendNext ==
  \/ SchedEnter
  \/ SchedStepLogged
  \/ SchedReturn

AppendSpec == AppendInit /\ [][AppendNext]_vars

\* ------------------------------------------------- recruitment on its own
\* recruitment_graph.invoke over the loaded companies, none of them scored yet
RankInit ==
  /\ phase = "recruit"
  /\ \E n \in 0..MaxCompanies :
       companies = [i \in 1..n |-> [company_name |-> i, intent_score |-> NoScore]]
  /\ shortlisted = <<>>
  /\ clock = 0
  /\ runq = <<>>
  /\ sleepq = <<>>
  /\ pc = [l \in Leads |-> "idle"]
  /\ wake = [l \in Leads |-> 0]
  /\ email_data = [l \in Leads |-> NoEmail]
  /\ total_wait = [l \in Leads |-> 0]
  /\ polls = [l \in Leads |-> 0]
  /\ onlyNoise = [l \in Leads |-> TRUE]
  /\ result = [l \in Leads |-> NoRecord]
  /\ emails_sent = <<>>
  /\ responses = <<>>
  /\ sched = NoSched
  /\ scheduled_meetings = <<>>
  /\ failure = "none"
  /\ resolved = NoCall
  /\ poll_log = NoPoll
  /\ mail_log = <<>>

\* what recruitment and the supervisor's hand-over leave alone
RankFrame ==
  UNCHANGED <<clock, sleepq, wake, email_data, total_wait, polls, onlyNoise, result,
              emails_sent, responses, sched, scheduled_meetings, resolved, poll_log,
              mail_log>>

\* recruitment_agent_node lines 101-108: the model scores the companies, or
\* raises; a company the answer does not name keeps no score
ScoreCompanies ==
  /\ phase = "recruit"
  /\ \/ /\ phase' = "failed"
        /\ failure' = "recruitment llm"
        /\ UNCHANGED companies
     \/ \E sc \in [1..Len(companies) -> Scores \cup {NoScore}] :
          /\ companies' = [i \in 1..Len(companies) |->
                             [companies[i] EXCEPT !.intent_score = sc[i]]]
          /\ phase' = "scored"
          /\ UNCHANGED failure
  /\ UNCHANGED <<shortlisted, runq, pc>>
  /\ RankFrame

\* recruitment_agent_node lines 111-114: sort and cut
RankCompanies ==
  /\ phase = "scored"
  /\ shortlisted' = [k \in 1..Len(Shortlist(companies)) |->
                       companies[Shortlist(companies)[k]].company_name]
  /\ phase' = "ranked"
  /\ UNCHANGED <<companies, runq, pc, failure>>
  /\ RankFrame

\* supervisor_agent_node lines 70-98: the early return, or a task per
\* shortlisted lead
EnterOutreach ==
  /\ phase = "ranked"
  /\ IF NoneShortlisted(shortlisted)
     THEN /\ phase' = "done"
          /\ UNCHANGED <<runq, pc>>
     ELSE /\ phase' = "outreach"
          /\ runq' = shortlisted
          /\ pc' = [l \in Leads |->
                      IF \E k \in 1..Len(shortlisted) : shortlisted[k] = l
                      THEN "compose" ELSE "idle"]
  /\ UNCHANGED <<companies, shortlisted, failure>>
  /\ RankFrame

RankNext ==
  \/ ScoreCompanies
  \/ RankCompanies
  \/ EnterOutreach

RankSpec == RankInit /\ [][RankNext]_vars

\* ------------------------------------------- wait_for_reply on its own
\* When a message of the sender's reached the mailbox: before the date the
\* search names, from that date on but before the pipeline started, or since
\* the pipeline started.  The pipeline runs after the date of the search.
Received == {"before 05-Nov-2025", "before the run", "in the run"}

\* r is no later than s
NoLater(r, s) ==
  \/ r = s
  \/ r = "before 05-Nov-2025"
  \/ s = "in the run"

\* what the sender's mail in "[Gmail]/All Mail" can be, in the order of arrival
Mailboxes ==
  {mb \in UNION {[1..n -> [body : Bodies, received : Received]] : n \in 0..MaxMail} :
     \A i, j \in 1..Len(mb) : i <= j => NoLater(mb[i].received, mb[j].received)}

\* mail.search(None, '(FROM "..." SINCE "05-Nov-2025")'): the messages of the
\* sender received on or after the date written in the search
Search(mailbox) == SelectSeq(mailbox, LAMBDA m : m.received # "before 05-Nov-2025")

\* the bodies of the messages found, in the order of their ids
BodiesOf(found) == [i \in 1..Len(found) |-> found[i].body]

\* the newest message found gives no snippet, being a system message or empty,
\* while an older message found with it does
Shadowed(box) ==
  /\ box # <<>>
  /\ ~Truthy(SnippetOf(box[Len(box)]))
  /\ \E i \in 1..(Len(box) - 1) : Truthy(SnippetOf(box[i]))

\* what one turn of the watcher met
PollOutcome(l, imap_error, box) ==
  IF ~WithinTimeout(total_wait[l]) THEN "timeout"
  ELSE IF imap_error THEN "error"
  ELSE IF Truthy(read_latest_reply(box, imap_error)) THEN "reply"
  ELSE IF SawNoise(box, imap_error) THEN "noise"
  ELSE "empty"

\* wait_for_reply(contact) awaited on its own, as the only task of the event loop
WatchInit ==
  /\ phase = "outreach"
  /\ companies = <<1>>
  /\ shortlisted = <<1>>
  /\ clock = 0
  /\ runq = <<1>>
  /\ sleepq = <<>>
  /\ pc = [l \in Leads |-> IF l = 1 THEN "poll" ELSE "idle"]
  /\ wake = [l \in Leads |-> 0]
  /\ email_data = [l \in Leads |-> NoEmail]
  /\ total_wait = [l \in Leads |-> 0]
  /\ polls = [l \in Leads |-> 0]
  /\ onlyNoise = [l \in Leads |-> TRUE]
  /\ result = [l \in Leads |-> NoRecord]
  /\ emails_sent = <<>>
  /\ responses = <<>>
  /\ sched = NoSched
  /\ scheduled_meetings = <<>>
  /\ failure = "none"
  /\ resolved = NoCall
  /\ poll_log = NoPoll
  /\ mail_log = <<>>

\* a turn of the watcher over the sender's mail, with what it met written down
WatchPoll ==
  \E imap_error \in BOOLEAN, mailbox \in Mailboxes :
    LET found == Search(mailbox)
        box == BodiesOf(found)
        outcome == PollOutcome(1, imap_error, box)
    IN /\ PollWith(1, imap_error, box)
       /\ poll_log' =
            [outcome |-> outcome,
             predates |-> outcome = "reply" /\ found[Len(found)].received # "in the run",
             erred |-> poll_log.erred \/ outcome = "error",
             only_errors |-> poll_log.only_errors /\ outcome \in {"error", "timeout"},
             seen |-> IF outcome \in {"timeout", "error"} THEN None
                      ELSE IF box = <<>> THEN None ELSE SnippetOf(box[Len(box)]),
             shadowed |-> outcome \notin {"timeout", "error"} /\ Shadowed(box)]

WatchNext ==
  \/ WatchPoll
  \/ Tick

WatchSpec == WatchInit /\ [][WatchNext]_vars

\* ------------------------------------------------------------------ claims
Watching(l) == pc[l] \in {"poll", "sleep"}

\* interaction_agent_node has returned to the supervisor
OutreachReturned == shortlisted # <<>> /\ phase # "outreach" /\ failure # "process_lead"

\* the records of a collection that carry lead l's address
RecordsOf(seq, l) == {k \in 1..Len(seq) : seq[k].email = l}

\* C1: every record wait_for_reply returns with status "replied" carries a
\* non-empty reply text.
C1_RepliedHasText ==
  \A l \in Leads : result[l].status = "replied" => Truthy(result[l].reply)

\* C2: in a finished run over three companies where lead 1 answers with a date
\* and is judged positive with that date, lead 2 answers without a date and is
\* judged positive with no availability, and lead 3 never answers (each of them
\* whenever it is contacted), there is exactly one meeting record, lead 1's,
\* exactly one follow-up record, lead 2's, and no record for lead 3.
C2_EndToEnd ==
  LET ScenarioReplies ==
        \A k \in 1..Len(responses) :
          /\ responses[k].email = 1 =>
               responses[k].status = "replied" /\ responses[k].reply = <<"Yes", "Nov", "18">>
          /\ responses[k].email = 2 =>
               responses[k].status = "replied" /\ responses[k].reply = <<"Yes">>
          /\ responses[k].email = 3 => responses[k].status = "no_reply"
      ScenarioJudgments ==
        \A k \in 1..Len(sched.judged) :
          /\ sched.judged[k].sentiment = "positive"
          /\ sched.judged[k].email = 1 => sched.judged[k].availability = <<"Nov", "18">>
          /\ sched.judged[k].email = 2 => sched.judged[k].availability = None
  IN (phase = "done" /\ Len(companies) = 3 /\ ScenarioReplies /\ ScenarioJudgments) =>
       /\ Len(scheduled_meetings) = 1
       /\ Cardinality(RecordsOf(scheduled_meetings, 1)) = 1
       /\ Len(sched.follow_ups_sent) = 1
       /\ Cardinality(RecordsOf(sched.follow_ups_sent, 2)) = 1

\* C3: a poll that finds a system message, after polls that all found one,
\* suspends the watcher in asyncio.sleep and returns nothing; and a watcher
\* whose every poll found a system message returns "no_reply", after its
\* total_wait has reached the timeout and it has polled timeout/interval times.
C3_NoiseNeverEndsWatch ==
  [][\A l \in Leads :
       /\ (pc[l] = "poll" /\ pc'[l] # "poll" /\ WithinTimeout(total_wait[l]) /\ onlyNoise'[l]) =>
            /\ pc'[l] = "sleep"
            /\ result'[l] = NoRecord
            /\ wake'[l] = clock + interval_sec
       /\ (pc[l] = "poll" /\ pc'[l] = "done" /\ onlyNoise'[l]) =>
            /\ result'[l].status = "no_reply"
            /\ total_wait[l] >= TimeoutSec
            /\ polls[l] = TimeoutSec \div interval_sec]_vars

\* C3 witness: a watcher every poll of which found a system message has returned
C3_Witness ==
  \E l \in Leads : pc[l] = "done" /\ onlyNoise[l] /\ result[l].status = "no_reply"

\* C4: once the coordinator has returned or failed, no lead's task is still
\* composing, sending, polling or sleeping.
C4_JoinWaitsForAll ==
  phase \in {"schedule", "analytics", "done", "failed"} =>
    \A l \in Leads : pc[l] \notin {"compose", "send", "poll", "sleep"}

\* C5: during outreach the elapsed sleep time is the accumulated wait of every
\* lead still in its watcher, and never exceeds the per-lead timeout: the
\* watchers wait side by side, so the time at the join is the longest wait of
\* one lead and not the sum of the waits.
C5_WaitIsMaxNotSum ==
  phase = "outreach" =>
    /\ clock <= TimeoutSec
    /\ \A l \in Leads : Watching(l) => total_wait[l] = clock

\* C5 witness: both tasks of a two-lead run have waited out the whole timeout,
\* and the join point is reached after one timeout, not two
C5_Witness ==
  /\ phase = "outreach" /\ runq = <<>> /\ AllDone
  /\ Len(shortlisted) = 2
  /\ \A k \in 1..2 : result[shortlisted[k]].status = "no_reply"
  /\ clock = TimeoutSec

\* C6: a lead whose send failed has a "failed" outreach result, goes on into
\* reply watching and ends with a reply record like any other lead; it is never
\* the task that fails the coordinator.
C6_SendFailureIsLocal ==
  \A k \in 1..Len(emails_sent) :
    emails_sent[k].status = "failed" =>
      LET e == emails_sent[k].email
      IN /\ phase = "outreach" =>
              /\ pc[e] \in {"poll", "sleep", "done"}
              /\ pc[e] = "done" => result[e].status \in {"replied", "no_reply"}
         /\ OutreachReturned =>
              \E j \in RecordsOf(responses, e) : responses[j].status \in {"replied", "no_reply"}
         /\ failure = "process_lead" => pc[e] # "raised"

\* C6 witness: the first lead's send failed, and the run went on to a reply from
\* the other lead
C6_Witness ==
  /\ OutreachReturned
  /\ Len(emails_sent) = 2
  /\ emails_sent[1].status = "failed" /\ emails_sent[2].status = "sent"
  /\ \E j \in RecordsOf(responses, emails_sent[2].email) : responses[j].status = "replied"

\* C7: after the coordinator returns, emails_sent holds exactly one outreach
\* result, "sent" or "failed", for each shortlisted lead.
C7_OneResultPerLead ==
  OutreachReturned =>
    \A k \in 1..Len(shortlisted) :
      /\ Cardinality(RecordsOf(emails_sent, shortlisted[k])) = 1
      /\ \A j \in RecordsOf(emails_sent, shortlisted[k]) :
           emails_sent[j].status \in {"sent", "failed"}

\* C8: after the coordinator returns, responses holds exactly one reply record
\* per shortlisted lead, with the lead's address, and every status is "replied"
\* or "no_reply".
C8_OneReplyPerLead ==
  OutreachReturned =>
    /\ Len(responses) = Len(shortlisted)
    /\ \A k \in 1..Len(shortlisted) : Cardinality(RecordsOf(responses, shortlisted[k])) = 1
    /\ \A j \in 1..Len(responses) : responses[j].status \in {"replied", "no_reply"}

\* C9: whatever the drafting model returns, the parsed email_data is a usable
\* {subject, body} and the lead's task does not fail on it.
C9_MalformedDraftFallsBack ==
  \A l \in Leads :
    email_data[l] # NoEmail => Subscriptable(email_data[l]) /\ pc[l] # "raised"

\* C10: a model call that raises never ends a stage: a lead whose drafting call
\* raised ends with an empty reply record, and the run never fails on the call
\* that classifies a reply.
C10_OneFailureNeverStopsBatch ==
  /\ \A l \in Leads : result[l].status = "failed" => pc[l] = "done" /\ result[l].reply = None
  /\ failure # "intent llm"

\* the reply text that judged entry j of the scheduler was made from
JudgedReply(j) ==
  LET k == CHOOSE k \in 1..Len(sched.responses) :
             sched.responses[k].email = sched.judged[j].email
  IN sched.responses[k].reply

\* the text the scheduler resolves a time from for judged entry j
JudgedSource(j) ==
  IF Truthy(sched.judged[j].availability) THEN sched.judged[j].availability
  ELSE JudgedReply(j)

\* C11: a classifier answer that is not a JSON object never fails the
\* scheduler, and is judged as {neutral, no availability} before the date
\* override is applied.
C11_ParseFailureIsNeutral ==
  /\ failure # "intent shape"
  /\ \A j \in 1..Len(sched.judged) :
       sched.judged[j].classified.json # "dict" =>
         LET fallback == Augment([sentiment |-> "neutral", availability |-> None],
                                 JudgedReply(j))
         IN /\ sched.judged[j].sentiment = fallback.sentiment
            /\ sched.judged[j].availability = fallback.availability

C13_DateMentionIsPositive ==
  \A j \in 1..Len(sched.judged) :
    date_match(JudgedReply(j)) # None => sched.judged[j].sentiment = "positive"

\* the records of the current run that carry judged entry j's address
MeetingsOf(j) == RecordsOf(sched.scheduled_meetings, sched.judged[j].email)
FollowUpsOf(j) == RecordsOf(sched.follow_ups_sent, sched.judged[j].email)

\* C16: extract_meeting_datetime never raises: the scheduler never fails in it,
\* and a positive reply for which it finds no time gets the follow-up request.
C16_ResolveNeverErrors ==
  /\ failure # "extract_meeting_datetime"
  /\ \A j \in 1..Len(sched.judged) :
       (sched.judged[j].sentiment = "positive"
          /\ extract_meeting_datetime(JudgedSource(j)) = "none") =>
         Cardinality(FollowUpsOf(j)) = 1

\* C19: a turn of the scheduler that judges a reply negative changes neither
\* scheduled_meetings nor follow_ups_sent, asks nothing of the calendar or the
\* mail collaborator and does not fail; this holds in every run over the same
\* replies.
C19_DeclinedHasNoEffect ==
  [][(/\ sched'.run = sched.run
      /\ Len(sched'.judged) = Len(sched.judged) + 1
      /\ sched'.judged[Len(sched'.judged)].sentiment = "negative") =>
       /\ sched'.scheduled_meetings = sched.scheduled_meetings
       /\ sched'.follow_ups_sent = sched.follow_ups_sent
       /\ sched'.effects = sched.effects
       /\ phase' = phase]_vars

\* C19 witness: the second run over a reply has judged it negative again, and
\* no run has produced a record or asked anything of a collaborator
C19_Witness ==
  /\ sched.run = 2
  /\ Len(sched.responses) = 1
  /\ Len(sched.judged) = 1
  /\ sched.judged[1].sentiment = "negative"
  /\ sched.effects = 0
  /\ sched.scheduled_meetings = <<>> /\ sched.follow_ups_sent = <<>>
  /\ scheduled_meetings = <<>>

\* C20: every reply judged positive gets exactly one record, made from the
\* availability when there is one and from the reply otherwise: a meeting
\* record when a time is resolved, a follow-up record when none is; the
\* scheduler never ends on a positive reply without a record.
C20_PositiveMakesOneRecord ==
  /\ failure # "extract_meeting_datetime"
  /\ \A j \in 1..Len(sched.judged) :
       sched.judged[j].sentiment = "positive" =>
         /\ Cardinality(MeetingsOf(j)) + Cardinality(FollowUpsOf(j)) = 1
         /\ Cardinality(MeetingsOf(j)) = 1 <=>
              extract_meeting_datetime(JudgedSource(j)) = "time"

\* days from 1 January 2020 to the date of dt
RECURSIVE DaysBeforeYear(_)
DaysBeforeYear(y) ==
  IF y <= 2020 THEN 0 ELSE DaysBeforeYear(y - 1) + (IF IsLeap(y - 1) THEN 366 ELSE 365)

RECURSIVE DaysBeforeMonth(_, _)
DaysBeforeMonth(y, m) == IF m <= 1 THEN 0 ELSE DaysBeforeMonth(y, m - 1) + DaysIn(y, m - 1)

Ordinal(dt) == DaysBeforeYear(dt.year) + DaysBeforeMonth(dt.year, dt.month) + dt.day

\* the call of extract_meeting_datetime has returned a datetime
Returned == resolved.kind = "time"

\* the lowered text of the call
CallText == IF Truthy(resolved.reply_text) THEN lower(strip(resolved.reply_text)) ELSE <<>>

\* C14: a datetime that extract_meeting_datetime returns is never before now.
C14_NeverInThePast ==
  Returned => ~Before(resolved.t, resolved.today)

\* C14 witness: the fuzzy rule was given a date more than a year in the past
\* and returned a datetime
C14_Witness ==
  /\ Returned
  /\ resolved.rule = "fuzzy"
  /\ resolved.parsed.at.year + 1 < resolved.today.year

\* C15: in the fuzzy rule a parsed datetime before now comes back exactly one
\* year later (same month, day and time), and a parsed datetime not before now
\* comes back unchanged.
C15_AdvanceExactlyOneYear ==
  (resolved.rule = "fuzzy" /\ resolved.parsed.kind = "naive") =>
    /\ Returned
    /\ resolved.t = IF Before(resolved.parsed.at, resolved.today)
                    THEN [resolved.parsed.at EXCEPT !.year = @ + 1]
                    ELSE resolved.parsed.at

\* C17: a text with "tomorrow" resolves to the day after now: at the hour and
\* minutes it carries (pm adding 12 to an hour under 12), or at now's time of
\* day when it carries none; "tomorrow 3pm" at 2025-11-10 09:00 is
\* 2025-11-11 15:00.
C17_TomorrowRule ==
  (resolved.kind # "pending" /\ Contains(CallText, "tomorrow")) =>
    /\ Returned
    /\ Ordinal(resolved.t) = Ordinal(resolved.today) + 1
    /\ \/ /\ \A i \in 1..Len(CallText) : NumberOf(CallText[i]) < 0
          /\ resolved.t.hour = resolved.today.hour
          /\ resolved.t.minute = resolved.today.minute
       \/ /\ CallText = <<"tomorrow", "3pm">>
          /\ resolved.t.hour = 15 /\ resolved.t.minute = 0
       \/ /\ CallText = <<"tomorrow", "10:30">>
          /\ resolved.t.hour = 10 /\ resolved.t.minute = 30
    /\ (CallText = <<"tomorrow", "3pm">>
          /\ resolved.today = [year |-> 2025, month |-> 11, day |-> 10, hour |-> 9, minute |-> 0])
         => resolved.t = [year |-> 2025, month |-> 11, day |-> 11, hour |-> 15, minute |-> 0]

\* C18: a text with "next week" and without "tomorrow" resolves to now plus
\* seven days at now's time of day, also when it holds a date the fuzzy parser
\* would read (2025-11-10 gives 2025-11-17); a text with both "tomorrow" and
\* "next week" falls under the "tomorrow" rule.
C18_NextWeekRule ==
  resolved.kind # "pending" =>
    /\ (Contains(CallText, "next week") /\ ~Contains(CallText, "tomorrow")) =>
         /\ resolved.rule = "next week"
         /\ Returned
         /\ Ordinal(resolved.t) = Ordinal(resolved.today) + 7
         /\ resolved.t.hour = resolved.today.hour
         /\ resolved.t.minute = resolved.today.minute
         /\ (resolved.today.year = 2025 /\ resolved.today.month = 11
               /\ resolved.today.day = 10) =>
              (resolved.t.year = 2025 /\ resolved.t.month = 11 /\ resolved.t.day = 17)
    /\ (Contains(CallText, "next week") /\ Contains(CallText, "tomorrow")) =>
         resolved.rule = "tomorrow"

\* C18 witness: on 2025-11-10 a text with "next week" and a date has resolved
\* to 2025-11-17
C18_Witness ==
  /\ resolved.reply_text = <<"next week", "nov", "18">>
  /\ Returned
  /\ resolved.today.year = 2025 /\ resolved.today.month = 11 /\ resolved.today.day = 10
  /\ resolved.t.year = 2025 /\ resolved.t.month = 11 /\ resolved.t.day = 17

\* C21: in a pipeline run no contact address has both a meeting record and a
\* follow-up record, and none has more than one record in scheduled_meetings or
\* in follow_ups_sent.  A lead is identified by its contact address.
C21_MeetingOrFollowUp ==
  \A l \in Leads :
    /\ Cardinality(RecordsOf(sched.scheduled_meetings, l)) <= 1
    /\ Cardinality(RecordsOf(sched.follow_ups_sent, l)) <= 1
    /\ Cardinality(RecordsOf(scheduled_meetings, l)) <= 1
    /\ RecordsOf(sched.scheduled_meetings, l) = {} \/ RecordsOf(sched.follow_ups_sent, l) = {}

\* C21 witness: a run that ended with a meeting record for one lead and a
\* follow-up record for the other
C21_Witness ==
  /\ phase = "done"
  /\ Len(sched.responses) = 2
  /\ Len(scheduled_meetings) = 1
  /\ Len(sched.follow_ups_sent) = 1
  /\ scheduled_meetings[1].email # sched.follow_ups_sent[1].email

\* C22: a turn of the scheduler that judges a reply neutral changes neither
\* scheduled_meetings nor follow_ups_sent, asks nothing of the calendar or the
\* mail collaborator and does not fail, whether or not a time can be resolved
\* from the reply.
C22_NeutralHasNoEffect ==
  [][(/\ sched'.run = sched.run
      /\ Len(sched'.judged) = Len(sched.judged) + 1
      /\ sched'.judged[Len(sched'.judged)].sentiment = "neutral") =>
       /\ sched'.scheduled_meetings = sched.scheduled_meetings
       /\ sched'.follow_ups_sent = sched.follow_ups_sent
       /\ sched'.effects = sched.effects
       /\ sched'.idx = sched.idx + 1
       /\ phase' = phase]_vars

\* C22 witness: a reply judged neutral from which a time can be resolved, and
\* one judged neutral from which none can, and nothing was done for either
C22_Witness ==
  /\ Len(sched.judged) = 2
  /\ \A j \in 1..2 : sched.judged[j].sentiment = "neutral"
  /\ extract_meeting_datetime(JudgedSource(1)) = "time"
  /\ extract_meeting_datetime(JudgedSource(2)) = "none"
  /\ sched.effects = 0
  /\ sched.scheduled_meetings = <<>> /\ sched.follow_ups_sent = <<>>

\* C23: a turn of the scheduler that judges a reply positive and resolves a
\* time appends exactly one record to scheduled_meetings, carrying the reply's
\* address and either the event id or the calendar's error; whether the booking
\* succeeded or failed, the turn appends no follow-up record, does not fail and
\* moves on to the next reply.
C23_BookingFailureIsRecorded ==
  [][(/\ sched'.run = sched.run
      /\ Len(sched'.judged) = Len(sched.judged) + 1
      /\ LET last == sched'.judged[Len(sched'.judged)]
             source == IF Truthy(last.availability) THEN last.availability
                       ELSE sched.responses[sched.idx].reply
         IN last.sentiment = "positive" /\ extract_meeting_datetime(source) = "time") =>
       /\ Len(sched'.scheduled_meetings) = Len(sched.scheduled_meetings) + 1
       /\ LET meeting_info == sched'.scheduled_meetings[Len(sched'.scheduled_meetings)]
          IN /\ meeting_info.email = sched.responses[sched.idx].email
             /\ \/ meeting_info.error = "calendar" /\ meeting_info.event_id = "absent"
                \/ meeting_info.error = "absent" /\ meeting_info.event_id = "id"
       /\ SubSeq(sched'.scheduled_meetings, 1, Len(sched.scheduled_meetings))
            = sched.scheduled_meetings
       /\ sched'.follow_ups_sent = sched.follow_ups_sent
       /\ sched'.idx = sched.idx + 1
       /\ phase' = phase]_vars

\* C23 witness: the booking for the first reply failed and left an error
\* record, no follow-up was made, and the second reply was then booked
C23_Witness ==
  /\ Len(sched.judged) = 2
  /\ Len(sched.scheduled_meetings) = 2
  /\ sched.scheduled_meetings[1].error = "calendar"
  /\ sched.scheduled_meetings[1].email = sched.responses[1].email
  /\ sched.scheduled_meetings[2].error = "absent"
  /\ sched.scheduled_meetings[2].email = sched.responses[2].email
  /\ sched.follow_ups_sent = <<>>
  /\ phase = "analytics"

\* C24: once recruitment has returned with nothing shortlisted the run is over
\* and is no failure: outreach, scheduling and analytics are never entered, no
\* task is started, nothing is sent, polled, classified or booked, and
\* emails_sent, responses and scheduled_meetings are empty.
C24_NoLeadsEndsRun ==
  (shortlisted = <<>> /\ phase # "recruit") =>
    /\ phase \in {"done", "failed"}
    /\ phase = "done" => failure = "none"
    /\ phase = "failed" => failure = "recruitment llm"
    /\ emails_sent = <<>> /\ responses = <<>> /\ scheduled_meetings = <<>>
    /\ sched = NoSched
    /\ runq = <<>> /\ sleepq = <<>> /\ clock = 0
    /\ \A l \in Leads : /\ pc[l] = "idle"
                        /\ polls[l] = 0
                        /\ email_data[l] = NoEmail
                        /\ result[l] = NoRecord

\* C24 witness: recruitment returned an empty shortlist and the run has ended
C24_Witness ==
  /\ phase = "done"
  /\ shortlisted = <<>>
  /\ failure = "none"
  /\ emails_sent = <<>> /\ responses = <<>> /\ scheduled_meetings = <<>>

\* the reply of record r is a non-empty text that is no sentinel and holds no
\* blocklisted substring
ValidReply(r) ==
  /\ IsStr(r.reply)
  /\ r.reply # <<>>
  /\ lower(strip(r.reply)) \notin {<<"none">>, <<"null">>, <<>>, <<"no reply">>}
  /\ \A i \in 1..Len(r.reply) :
       LowerTok(r.reply[i]) \notin
         {"drive.google.com", "no-reply", "automated message", "requests access"}

\* C25: when outreach has returned and no reply record is valid, the scheduler
\* is not invoked, even over an empty list: nothing is classified, booked or
\* sent, scheduled_meetings is empty, and the run goes on to analytics without
\* failing before it.
C25_NoValidReplySkipsScheduler ==
  /\ phase = "schedule" => sched.responses # <<>>
  /\ (OutreachReturned /\ \A k \in 1..Len(responses) : ~ValidReply(responses[k])) =>
       /\ sched = NoSched
       /\ scheduled_meetings = <<>>
       /\ phase \in {"analytics", "done", "failed"}
       /\ phase = "failed" => failure = "analytics"

\* C25 witness: two leads were written to, neither reply record is valid, and
\* the run went past analytics without the scheduler
C25_Witness ==
  /\ phase = "done"
  /\ Len(responses) = 2
  /\ \A k \in 1..2 : ~ValidReply(responses[k])
  /\ \E k \in 1..2 : responses[k].status = "replied"
  /\ sched = NoSched
  /\ scheduled_meetings = <<>>

\* C26: every record the scheduler receives in a pipeline run holds a valid
\* reply of a lead whose status is "replied", and it is one of the records of
\* responses; only such leads are classified, booked or sent a follow-up.
C26_SchedulerGetsValidReplies ==
  /\ \A k \in 1..Len(sched.responses) :
       /\ ValidReply(sched.responses[k])
       /\ sched.responses[k].status = "replied"
       /\ \E i \in 1..Len(responses) : responses[i] = sched.responses[k]
  /\ \A l \in Leads :
       (\/ RecordsOf(sched.judged, l) # {}
        \/ RecordsOf(sched.scheduled_meetings, l) # {}
        \/ RecordsOf(sched.follow_ups_sent, l) # {}
        \/ RecordsOf(scheduled_meetings, l) # {}) =>
         \E i \in RecordsOf(responses, l) :
           ValidReply(responses[i]) /\ responses[i].status = "replied"

\* C26 witness: one lead answered with an automated message and one with a
\* reply of its own; the scheduler received and judged the second alone
C26_Witness ==
  /\ Len(responses) = 2
  /\ responses[1].reply = <<"no-reply">>
  /\ ValidReply(responses[2])
  /\ Len(sched.responses) = 1
  /\ sched.responses[1] = responses[2]
  /\ Len(sched.judged) = 1
  /\ phase = "done"

\* C27: a poll of the watcher in which the mailbox collaborator fails does not
\* fail the watcher and counts as a poll without a reply: the watcher keeps its
\* result open and sleeps interval_sec before it polls again.  A later poll
\* that finds a reply returns "replied", and a watcher whose every poll failed
\* returns "no_reply" at the timeout.
C27_PollErrorIsNoReply ==
  [][/\ pc'[1] # "raised"
     /\ (pc[1] = "poll" /\ pc'[1] # "poll" /\ poll_log'.outcome = "error") =>
          /\ pc'[1] = "sleep"
          /\ result' = result
          /\ total_wait' = total_wait
          /\ polls'[1] = polls[1] + 1
          /\ wake'[1] = clock + interval_sec
          /\ phase' = phase
     /\ (pc[1] = "poll" /\ pc'[1] # "poll" /\ poll_log'.outcome = "reply") =>
          /\ pc'[1] = "done"
          /\ result'[1].status = "replied"
     /\ (pc'[1] = "done" /\ poll_log'.only_errors) =>
          /\ result'[1].status = "no_reply"
          /\ clock' = TimeoutSec]_vars

\* C27 witness: a poll failed, and a later poll returned the lead's reply
C27_Witness ==
  /\ poll_log.erred
  /\ poll_log.outcome = "reply"
  /\ pc[1] = "done"
  /\ result[1].status = "replied"
  /\ Truthy(result[1].reply)
  /\ clock > 0

\* C28: the watcher never returns a message that reached the mailbox before
\* the pipeline run started.
C28_OnlyMessagesOfThisRun ==
  result[1].status = "replied" => ~poll_log.predates

\* C29: the watcher makes at most ceil(timeout / interval_sec) polls; its
\* total_wait is interval_sec times the polls that found no reply, whatever
\* they found instead, and never exceeds the timeout; it returns "no_reply"
\* exactly when total_wait has reached the timeout, and until it has returned it
\* can always take a step.
C29_PollBudget ==
  LET max_polls == (TimeoutSec + interval_sec - 1) \div interval_sec
  IN /\ Watching(1) =>
          /\ polls[1] <= max_polls
          /\ total_wait[1] = interval_sec * (polls[1] - (IF pc[1] = "sleep" THEN 1 ELSE 0))
          /\ total_wait[1] <= TimeoutSec
          /\ clock = total_wait[1]
          /\ ENABLED WatchNext
     /\ pc[1] = "done" =>
          /\ clock <= TimeoutSec
          /\ result[1].status = "no_reply" <=> clock >= TimeoutSec
          /\ result[1].status = "replied" <=> clock < TimeoutSec

\* C29 witness: every poll found a system message, and the watcher returned
\* "no_reply" when the timeout was reached
C29_Witness ==
  /\ pc[1] = "done"
  /\ result[1].status = "no_reply"
  /\ onlyNoise[1]
  /\ poll_log.outcome = "timeout"
  /\ clock = TimeoutSec

\* C30: while the tasks of a run are in flight neither emails_sent nor
\* responses is written: no outreach result of one lead is in emails_sent
\* while the task of another lead has not finished, and responses stays empty
\* until the join.
C30_AggregatesWrittenAtJoin ==
  phase = "outreach" =>
    /\ responses = <<>>
    /\ \A k \in 1..Len(emails_sent) :
         \A m \in Leads \ {emails_sent[k].email} :
           pc[m] \notin {"compose", "send", "poll", "sleep"}

\* C31: in each lead's task composition ends before the send begins and the
\* send has ended, with "sent" or "failed", before the first poll: a lead that
\* is polled, sleeps or has a reply record has exactly one outreach result, a
\* lead at the send has its parsed draft and no outreach result, and a lead at
\* composition has neither.  Nothing orders the steps of different leads.
C31_ComposeSendWait ==
  phase = "outreach" =>
    \A l \in Leads :
      /\ (Watching(l) \/ polls[l] > 0 \/ result[l].status \in {"replied", "no_reply"}) =>
           /\ Cardinality(RecordsOf(emails_sent, l)) = 1
           /\ \A k \in RecordsOf(emails_sent, l) : emails_sent[k].status \in {"sent", "failed"}
           /\ email_data[l] # NoEmail
      /\ pc[l] = "send" =>
           /\ email_data[l] # NoEmail
           /\ RecordsOf(emails_sent, l) = {}
           /\ polls[l] = 0
      /\ pc[l] = "compose" =>
           /\ email_data[l] = NoEmail
           /\ RecordsOf(emails_sent, l) = {}
           /\ polls[l] = 0
      /\ RecordsOf(emails_sent, l) # {} => email_data[l] # NoEmail

\* C31 witness: the first lead has been written to (the send failed), has been
\* polled and sleeps, while the second lead has not been composed for yet
C31_Witness ==
  /\ phase = "outreach"
  /\ pc[shortlisted[1]] = "sleep"
  /\ polls[shortlisted[1]] = 1
  /\ emails_sent[1].status = "failed"
  /\ Len(shortlisted) = 2
  /\ pc[shortlisted[2]] = "compose"

\* C32: a turn of the scheduler that appends a meeting record or a follow-up
\* record, or asks anything of the calendar or the mail collaborator, has
\* judged its reply exactly "positive" after the date override; a turn that
\* judged anything else, a label the classifier made up included, changes
\* neither collection and asks nothing.
C32_RecordImpliesPositive ==
  [][(sched'.run = sched.run) =>
       LET acted == \/ sched'.scheduled_meetings # sched.scheduled_meetings
                    \/ sched'.follow_ups_sent # sched.follow_ups_sent
                    \/ sched'.effects # sched.effects
           judges == Len(sched'.judged) = Len(sched.judged) + 1
       IN /\ acted =>
               /\ judges
               /\ sched'.judged[Len(sched'.judged)].sentiment = "positive"
               /\ sched'.judged[Len(sched'.judged)].email = sched.responses[sched.idx].email
          /\ (judges /\ sched'.judged[Len(sched'.judged)].sentiment # "positive") =>
               ~acted]_vars

\* C32 witness: the first reply was judged with a label of the classifier's
\* own and nothing was done for it, the second was judged positive and got the
\* only record
C32_Witness ==
  /\ Len(sched.judged) = 2
  /\ sched.judged[1].sentiment = "interested"
  /\ sched.judged[2].sentiment = "positive"
  /\ sched.effects = 1
  /\ Len(sched.scheduled_meetings) + Len(sched.follow_ups_sent) = 1
  /\ RecordsOf(sched.scheduled_meetings, sched.judged[1].email) = {}
  /\ RecordsOf(sched.follow_ups_sent, sched.judged[1].email) = {}

\* s is a prefix of t
IsPrefix(s, t) == Len(s) <= Len(t) /\ SubSeq(t, 1, Len(s)) = s

\* C33: the scheduler only appends: from its input state on, every step keeps
\* the records of scheduled_meetings and of follow_ups_sent as a prefix of the
\* new lists, leaves responses as it is, and a turn over one reply adds at most
\* one record to the two lists together.  So a positive reply of a lead that
\* already has a record in the input state gets a second one.
C33_AppendOnly ==
  [][/\ IsPrefix(sched.scheduled_meetings, sched'.scheduled_meetings)
     /\ IsPrefix(sched.follow_ups_sent, sched'.follow_ups_sent)
     /\ sched'.responses = sched.responses
     /\ Len(sched'.scheduled_meetings) + Len(sched'.follow_ups_sent)
          <= Len(sched.scheduled_meetings) + Len(sched.follow_ups_sent) + 1
     /\ Len(sched'.scheduled_meetings) + Len(sched'.follow_ups_sent)
          > Len(sched.scheduled_meetings) + Len(sched.follow_ups_sent)
          => sched'.idx = sched.idx + 1
     /\ phase = "schedule" /\ phase' = "analytics" =>
          scheduled_meetings' = sched.scheduled_meetings]_vars

\* C33 witness: the input state held a meeting record of the first lead, its
\* reply was judged positive again, and the node returned two meeting records
\* for that lead
C33_Witness ==
  /\ phase = "analytics"
  /\ Len(sched.judged) >= 1
  /\ sched.judged[1].email = 1 /\ sched.judged[1].sentiment = "positive"
  /\ Cardinality(RecordsOf(sched.scheduled_meetings, 1)) = 2
  /\ scheduled_meetings = sched.scheduled_meetings

\* C34: every turn of the scheduler that asks the mail collaborator for the
\* availability request appends the record {address, "follow-up sent"} for the
\* reply it stands at, whether the email went out or the send failed; the turn
\* does not fail, books nothing and moves on to the next reply.  No follow-up
\* record is appended without such a request.
C34_FollowUpRecordedEitherWay ==
  [][/\ mail_log' # mail_log =>
          /\ Len(mail_log') = Len(mail_log) + 1
          /\ mail_log'[Len(mail_log')].email = sched.responses[sched.idx].email
          /\ sched'.follow_ups_sent =
               Append(sched.follow_ups_sent,
                      [email |-> sched.responses[sched.idx].email, status |-> "follow-up sent"])
          /\ sched'.scheduled_meetings = sched.scheduled_meetings
          /\ sched'.idx = sched.idx + 1
          /\ phase' = phase
          /\ failure' = failure
     /\ (phase = "schedule" /\ sched'.follow_ups_sent # sched.follow_ups_sent) =>
          mail_log' # mail_log]_vars

\* C34 witness: the availability request for the first reply could not be
\* sent, its record says "follow-up sent" all the same, and the scheduler went
\* on and returned
C34_Witness ==
  /\ phase = "analytics"
  /\ Len(mail_log) >= 1
  /\ ~mail_log[1].delivered
  /\ \E k \in 1..Len(sched.follow_ups_sent) :
       /\ sched.follow_ups_sent[k].email = mail_log[1].email
       /\ sched.follow_ups_sent[k].status = "follow-up sent"
  /\ Len(sched.judged) = 2
  /\ failure = "none"

\* C35: the watcher polls before it sleeps, returns "replied" at the first poll
\* that gives a snippet, with that snippet as its reply, and takes no step
\* after it has returned.
C35_ReturnsAtFirstAccepted ==
  /\ (clock = 0 /\ poll_log.outcome = "none") => pc[1] = "poll"
  /\ pc[1] = "sleep" => poll_log.outcome \in {"error", "noise", "empty"}
  /\ poll_log.outcome = "reply" =>
       /\ pc[1] = "done"
       /\ result[1].status = "replied"
       /\ result[1].reply = poll_log.seen
  /\ pc[1] = "done" => ~ENABLED WatchNext

\* C36: a poll whose newest message gives no snippet, being a system message
\* or empty, yields nothing although an older message of the sender is a reply
\* of his own: the watcher has not returned and its result is open.
C36_OnlyNewestMessage ==
  poll_log.shadowed =>
    /\ poll_log.outcome \in {"noise", "empty"}
    /\ poll_log.seen = None
    /\ pc[1] \in {"sleep", "poll"}
    /\ result[1] = NoRecord

\* C36 witness: the last poll before the timeout found a system message as
\* the newest message and a reply of the sender's own before it, and the
\* watcher sleeps
C36_Witness ==
  /\ poll_log.shadowed
  /\ poll_log.outcome = "noise"
  /\ pc[1] = "sleep"
  /\ wake[1] = TimeoutSec
  /\ result[1] = NoRecord

\* the score company number i is ranked by
ScoreOf(i) ==
  ScoreKey(companies[CHOOSE j \in 1..Len(companies) : companies[j].company_name = i])

Next ==
  \/ Recruit
  \/ \E l \in Leads : Compose(l)
  \/ \E l \in Leads : Send(l)
  \/ \E l \in Leads : Poll(l)
  \/ Tick
  \/ JoinOk
  \/ JoinFail
  \/ SchedStep
  \/ SchedReturn
  \/ Analytics

Spec == Init /\ [][Next]_vars

\* a pipeline run in which the supervisor, the event loop and every task go on
\* as long as they have a step: none of them waits for anything but a timer or
\* the return of a call
LiveSpec == Init /\ [][Next]_vars /\ WF_vars(Next)

\* C38: a pipeline run in which no collaborator call raises ends with the
\* early return after recruitment or with the return after analytics.
C38_RunCompletes ==
  <>(\/ phase = "done"
     \/ phase = "failed" /\ failure \in {"recruitment llm", "intent llm", "analytics"})

====
